---- MODULE Spec2Model ----
(***************************************************************************)
(* Inference-serving core of the two FastAPI applications:                 *)
(*   4day/lab/code/app/main.py  prediction cache with TTL (predict_cached) *)
(*   7day/lab/code/app/main.py  predict + background log_data + monitoring *)
(*                                                                         *)
(* Floating point feature values are represented by their value in         *)
(* hundredths (510 stands for 5.1); pydantic's Field(gt=0, lt=10) bounds   *)
(* them to 1..999 at this resolution.                                      *)
(***************************************************************************)
EXTENDS Integers, Sequences, FiniteSets, TLC

\* ------------------------------------------------------------------ bounds
MaxCalls == 3       \* predict_cached requests per run of the 4day app
MaxReqs == 2        \* predict requests per run of the 7day app
MaxMon == 2         \* monitoring requests per run of the 7day app
MaxLogLen == 4      \* longest log the slice of load_last_predictions is applied to
MaxWindow == 5      \* largest window size the slice is applied with

\* --------------------------------------------------------------- constants
TTL == 30                \* 4day main.py: TTL = 30  # seconds
DATA_WINDOW_SIZE == 45   \* 7day main.py: DATA_WINDOW_SIZE = 45

\* ------------------------------------------------------------- input sets
\* names the requests carry: the two registered ones and an unknown one
RegistryNames == {"logistic_model", "rf_model"}
RequestNames == RegistryNames \cup {"svm_model"}

\* value of an environment variable holding a model path: unset (None),
\* a readable pickle, or a path open()/pickle.load() fails on
PathValues(var) ==
    {"unset", "corrupt.pkl", IF var = "LOGISTIC_MODEL" THEN "logistic.pkl" ELSE "rf.pkl"}

IrisData(sl, sw, pl, pw) ==
    [sepal_length |-> sl, sepal_width |-> sw, petal_length |-> pl, petal_width |-> pw]

\* feature vectors the requests of the state machines carry
Irises == {IrisData(510, 350, 140, 20), IrisData(630, 280, 510, 150)}

\* seconds elapsed between two successive readings of time.time()
Delays == {0, 10, TTL - 1, TTL, TTL + 1}

\* ------------------------------------------------------------- predictors
\* pickle.load(f): the predictor stored in a model file
Unpickle(path) == IF path = "logistic.pkl" THEN "LogisticRegression"
                  ELSE "RandomForestClassifier"

\* model.predict(X)[0]: a deterministic class label in 0..2; the two
\* predictors disagree on some inputs, (6.3, 2.8, 5.1, 1.5) among them
model_predict(handle, X) ==
    IF handle = "LogisticRegression"
    THEN (IF X[3] < 250 THEN 0 ELSE IF X[4] < 170 THEN 1 ELSE 2)
    ELSE (IF X[4] < 25 THEN 0 ELSE IF X[3] < 500 THEN 1 ELSE 2)

\* -------------------------------------------------------------- cache key
Digit(d) == CASE d = 0 -> "0" [] d = 1 -> "1" [] d = 2 -> "2" [] d = 3 -> "3"
              [] d = 4 -> "4" [] d = 5 -> "5" [] d = 6 -> "6" [] d = 7 -> "7"
              [] d = 8 -> "8" [] d = 9 -> "9"

\* a repr that prints the hundredths without their leading zero
float_repr_unpadded(v) ==
    LET ip == v \div 100
        fr == v % 100
    IN  IF fr % 10 = 0
        THEN <<Digit(ip), ".", Digit(fr \div 10)>>
        ELSE IF fr < 10 THEN <<Digit(ip), ".", Digit(fr)>>
        ELSE <<Digit(ip), ".", Digit(fr \div 10), Digit(fr % 10)>>

\* repr() of a float in (0, 10) given in hundredths: shortest digits that
\* round-trip, always with one digit after the point (5.0, 5.1, 5.25, 0.05)
float_repr(v) ==
    LET ip == v \div 100
        fr == v % 100
    IN  IF fr % 10 = 0
        THEN <<Digit(ip), ".", Digit(fr \div 10)>>
        ELSE <<Digit(ip), ".", Digit(fr \div 10), Digit(fr % 10)>>

\* iris.json(): the fields in declaration order, '{"name": value, ...}'
iris_json(iris) ==
    <<"{">> \o <<"\"sepal_length\"", ": ">> \o float_repr(iris.sepal_length)
            \o <<", ", "\"sepal_width\"", ": ">> \o float_repr(iris.sepal_width)
            \o <<", ", "\"petal_length\"", ": ">> \o float_repr(iris.petal_length)
            \o <<", ", "\"petal_width\"", ": ">> \o float_repr(iris.petal_width)
            \o <<"}">>

\* a key made of the feature vector alone
make_cache_key_features_only(model_name, iris) == <<":">> \o iris_json(iris)

\* f"{model_name}:{iris.json()}"
make_cache_key(model_name, iris) == <<model_name, ":">> \o iris_json(iris)

\* ------------------------------------------------------------------ state
VARIABLES
    env4,        \* 4day config.py: LOGISTIC_MODEL, RF_MODEL
    phase4,      \* lifespan of the 4day app
    ml_models4,  \* 4day main.py: ml_models
    CACHE,       \* 4day main.py: CACHE, key -> <<timestamp, prediction>>
    now,         \* last value time.time() returned
    calls,       \* the predict_cached requests answered so far, in order
    reqs4,       \* the predict requests of the 4day app, with their background task
    printed4,    \* what log_prediction has printed
    env7,        \* 7day: os.getenv("LOGISTIC_MODEL"), os.getenv("RF_MODEL")
    phase7,      \* lifespan of the 7day app
    ml_models7,  \* 7day main.py: ml_models
    DATA_LOG,    \* 7day main.py: DATA_LOG
    reqs,        \* the predict requests of the 7day app, with their background task
    mon,         \* the monitoring requests of the 7day app
    runs,        \* the calls of data_report.run made so far: the current_data passed
    report_html, \* the file report.html: the current_data of the report last saved
    key_in,      \* make_cache_key applied to one input: the input
    key_out,     \*   and the key
    sample_log,  \* the slice of load_last_predictions applied to one log: the log,
    sample_n,    \*   the window size
    sample_out   \*   and the rows returned

vars4 == <<env4, phase4, ml_models4, CACHE, now, calls, reqs4, printed4>>
vars7 == <<env7, phase7, ml_models7, DATA_LOG, reqs, mon, runs, report_html>>
varsK == <<key_in, key_out>>
varsS == <<sample_log, sample_n, sample_out>>
vars == <<vars4, vars7, varsK, varsS>>

EmptyMap == [x \in {} |-> 0]

Put(f, k, v) == [x \in DOMAIN f \cup {k} |-> IF x = k THEN v ELSE f[x]]

Env4Names == {"LOGISTIC_MODEL", "RF_MODEL"}

\* the settings of the two environment variables a process may start with
EnvValues ==
    {e \in [Env4Names -> {"unset", "corrupt.pkl", "logistic.pkl", "rf.pkl"}] :
        \A v \in Env4Names : e[v] \in PathValues(v)}

EnvUnset == [v \in Env4Names |-> "unset"]

NoKey == [done |-> FALSE, key |-> <<>>]
NoSample == [done |-> FALSE, rows |-> <<>>]

\* -------------------------------------------------------------- 4day app
\* load_model(path): open(None) and open of an unreadable file both raise
load_model4_raises(path) == path \in {"unset", "corrupt.pkl"}

load_model4(path) == Unpickle(path)

\* lifespan, up to the yield: the first load_model that raises aborts startup,
\* leaving what was stored before it
lifespan_startup4 ==
    /\ phase4 = "created"
    /\ IF load_model4_raises(env4["LOGISTIC_MODEL"])
       THEN /\ phase4' = "failed"
            /\ ml_models4' = ml_models4
       ELSE LET m1 == Put(ml_models4, "logistic_model", load_model4(env4["LOGISTIC_MODEL"]))
            IN  IF load_model4_raises(env4["RF_MODEL"])
                THEN /\ phase4' = "failed"
                     /\ ml_models4' = m1
                ELSE /\ phase4' = "serving"
                     /\ ml_models4' = Put(m1, "rf_model", load_model4(env4["RF_MODEL"]))
    /\ UNCHANGED <<env4, CACHE, now, calls, reqs4, printed4, vars7, varsK, varsS>>

\* a request the server has not finished: its response is not sent, or its
\* background task has not run to its end
InFlight(r) == ~r.sent \/ r.task \in {"scheduled", "running"}

\* lifespan, after the yield: ml_models.clear(). The server runs it once the
\* requests it accepted, background tasks included, have finished.
lifespan_shutdown4 ==
    /\ phase4 = "serving"
    /\ \A i \in DOMAIN reqs4 : ~InFlight(reqs4[i])
    /\ phase4' = "stopped"
    /\ ml_models4' = EmptyMap
    /\ UNCHANGED <<env4, CACHE, now, calls, reqs4, printed4, vars7, varsK, varsS>>

\* expiry test with the comparison inverted
cache_valid_inverted(cache, key, t) == key \in DOMAIN cache /\ t - cache[key][1] > TTL

\* expiry test that still accepts an entry aged exactly TTL
cache_valid_inclusive(cache, key, t) == key \in DOMAIN cache /\ t - cache[key][1] <= TTL

\* the test of line 102: key in CACHE and now - CACHE[key][0] < TTL
cache_valid(cache, key, t) == key \in DOMAIN cache /\ t - cache[key][1] < TTL

\* entries of the cache that have not expired at time t
Unexpired(cache, t) == {k \in DOMAIN cache : t - cache[k][1] < TTL}

\* a hit that also drops the entries that have expired
cache_after_hit_sweep(cache, key, t) == [k \in Unexpired(cache, t) |-> cache[k]]

\* a hit that restarts the lifetime of its entry
cache_after_hit_refresh(cache, key, t) == Put(cache, key, <<t, cache[key][2]>>)

\* the cache after a hit: line 103 returns and stores nothing
cache_after_hit(cache, key, t) == cache

\* a store that keeps an entry already present: CACHE.setdefault(key, (now, pred))
cache_store_setdefault(cache, key, t, pred) ==
    IF key \in DOMAIN cache THEN cache ELSE Put(cache, key, <<t, pred>>)

\* a store that first drops the entries that have expired
cache_store_sweep(cache, key, t, pred) ==
    Put([k \in Unexpired(cache, t) |-> cache[k]], key, <<t, pred>>)

\* CACHE[key] = (now, pred)
cache_store(cache, key, t, pred) == Put(cache, key, <<t, pred>>)

\* POST /predict_cached/{model_name}; t is the value time.time() returns.
\* The handler is a coroutine without an await: it runs from its first line
\* to its return with no other request in between. The field invoked of the
\* record of the call tells whether predict of the model was called.
predict_cached(model_name, iris, t) ==
    LET key == make_cache_key(model_name, iris)
        X == <<iris.sepal_length, iris.sepal_width, iris.petal_length, iris.petal_width>>
        call(status, pred, inv) == [model |-> model_name, iris |-> iris, t |-> t,
                                    cache |-> status, prediction |-> pred,
                                    invoked |-> inv]
    IN  /\ phase4 = "serving"
        /\ Len(calls) < MaxCalls
        /\ now' = t
        /\ IF cache_valid(CACHE, key, t)
           THEN /\ calls' = Append(calls, call("HIT", CACHE[key][2], FALSE))
                /\ CACHE' = cache_after_hit(CACHE, key, t)
           ELSE IF model_name \notin DOMAIN ml_models4
                THEN \* ml_models[model_name] raises KeyError: response 500
                     /\ calls' = Append(calls, call("KeyError", -1, FALSE))
                     /\ CACHE' = CACHE
                ELSE LET pred == model_predict(ml_models4[model_name], X)
                     IN  /\ CACHE' = cache_store(CACHE, key, t, pred)
                         /\ calls' = Append(calls, call("MISS", pred, TRUE))
        /\ UNCHANGED <<env4, phase4, ml_models4, reqs4, printed4, vars7, varsK, varsS>>

Request4 ==
    \E m \in RequestNames, iris \in Irises, d \in Delays :
        predict_cached(m, iris, now + d)

Next4 == lifespan_startup4 \/ lifespan_shutdown4 \/ Request4

\* Path(regex=r"^(logistic_model|rf_model)$")
path_regex4(model_name) == model_name \in {"logistic_model", "rf_model"}

\* POST /predict/{model_name} of the 4day app: the handler, up to its return
\* or raise; the task registered is log_prediction with the payload
\* {"model", "features", "prediction"}
predict4(model_name, iris) ==
    LET input_data == <<<<iris.sepal_length, iris.sepal_width,
                          iris.petal_length, iris.petal_width>>>>
        r0 == [model |-> model_name, iris |-> iris, status |-> "", prediction |-> -1,
               sent |-> FALSE, task |-> "none"]
    IN  /\ phase4 = "serving"
        /\ Len(reqs4) < MaxReqs
        /\ reqs4' = Append(reqs4,
              IF ~path_regex4(model_name)
              THEN [r0 EXCEPT !.status = "422"]
              ELSE IF model_name \notin DOMAIN ml_models4
              THEN [r0 EXCEPT !.status = "404"]
              ELSE LET prediction == model_predict(ml_models4[model_name], input_data[1])
                   IN  [r0 EXCEPT !.status = "200", !.prediction = prediction,
                                  !.task = "scheduled"])
        /\ UNCHANGED <<env4, phase4, ml_models4, CACHE, now, calls, printed4,
                       vars7, varsK, varsS>>

\* the server sends the response the handler produced
send_response4(i) ==
    /\ i \in DOMAIN reqs4
    /\ ~reqs4[i].sent
    /\ reqs4' = [reqs4 EXCEPT ![i].sent = TRUE]
    /\ UNCHANGED <<env4, phase4, ml_models4, CACHE, now, calls, printed4,
                   vars7, varsK, varsS>>

\* log_prediction: time.sleep(5), then print the payload; the server starts
\* it once the response is sent
log_prediction(i) ==
    /\ i \in DOMAIN reqs4
    /\ reqs4[i].task = "scheduled"
    /\ reqs4[i].sent
    /\ printed4' = Append(printed4, [model |-> reqs4[i].model, features |-> reqs4[i].iris,
                                     prediction |-> reqs4[i].prediction])
    /\ reqs4' = [reqs4 EXCEPT ![i].task = "done"]
    /\ UNCHANGED <<env4, phase4, ml_models4, CACHE, now, calls, vars7, varsK, varsS>>

RequestPredict4 == \E m \in RequestNames, iris \in Irises : predict4(m, iris)

Respond4 == \E i \in 1..MaxReqs : send_response4(i)

Task4 == \E i \in 1..MaxReqs : log_prediction(i)

\* the predict requests of the 4day app and their background tasks, without
\* the predict_cached requests, which share no state with them but ml_models
NextPredict4 ==
    \/ lifespan_startup4
    \/ lifespan_shutdown4
    \/ RequestPredict4
    \/ Respond4
    \/ Task4

\* the 4day process after its module is loaded; the rest is not started
Init4 ==
    /\ env4 \in EnvValues
    /\ phase4 = "created"
    /\ ml_models4 = EmptyMap
    /\ CACHE = EmptyMap
    /\ now = 0
    /\ calls = <<>>
    /\ reqs4 = <<>>
    /\ printed4 = <<>>
    /\ env7 = EnvUnset
    /\ phase7 = "created"
    /\ ml_models7 = EmptyMap
    /\ DATA_LOG = <<>>
    /\ reqs = <<>>
    /\ mon = <<>>
    /\ runs = <<>>
    /\ report_html = "absent"
    /\ key_in = <<>>
    /\ key_out = NoKey
    /\ sample_log = <<>>
    /\ sample_n = 1
    /\ sample_out = NoSample

Spec4 == Init4 /\ [][Next4]_vars

SpecPredict4 == Init4 /\ [][NextPredict4]_vars

\* ------------------------------------------------------- claims, 4day app
SameInput(a, b) == a.model = b.model /\ a.iris = b.iris

\* the key of every input a request of the state machine carries
KeyTable == [m \in RequestNames, iris \in Irises |-> make_cache_key(m, iris)]

\* the key a call looked up
CallKey(c) == KeyTable[c.model, c.iris]

\* call i stored the entry that call j finds: i missed, and no call between
\* them on the same input missed (and so overwrote the entry)
StoredFor(i, j) ==
    /\ i < j
    /\ SameInput(calls[i], calls[j])
    /\ calls[i].cache = "MISS"
    /\ \A k \in (i + 1)..(j - 1) : SameInput(calls[k], calls[i]) => calls[k].cache # "MISS"

\* C1: a request for (m, f) made less than TTL seconds after the request that
\* stored the entry for (m, f) reports HIT and returns that request's prediction.
C1_HitWithinTTL ==
    \A i, j \in DOMAIN calls :
        (/\ i < j
         /\ SameInput(calls[i], calls[j])
         /\ calls[i].cache = "MISS"
         /\ calls[j].t - calls[i].t < TTL)
        => (calls[j].cache = "HIT" /\ calls[j].prediction = calls[i].prediction)

\* C1 witness: the scenario of the specification, stored at some t and hit
\* 10 seconds later
C1_Witness ==
    \E i, j \in DOMAIN calls :
        /\ i < j
        /\ SameInput(calls[i], calls[j])
        /\ calls[i].model = "rf_model"
        /\ calls[i].cache = "MISS"
        /\ calls[j].t - calls[i].t = 10
        /\ calls[j].cache = "HIT"

\* C2: a request for (m, f) made TTL seconds or more after the entry for
\* (m, f) was stored reports MISS and returns the prediction of the request
\* that stored it.
C2_MissAfterTTL ==
    \A i, j \in DOMAIN calls :
        (StoredFor(i, j) /\ calls[j].t - calls[i].t >= TTL)
        => (calls[j].cache = "MISS" /\ calls[j].prediction = calls[i].prediction)

\* C2 witness: a second request at exactly TTL seconds, with a hit in between
C2_Witness ==
    \E i, j \in DOMAIN calls :
        /\ StoredFor(i, j)
        /\ calls[j].t - calls[i].t = TTL
        /\ calls[j].cache = "MISS"
        /\ \E k \in (i + 1)..(j - 1) : SameInput(calls[k], calls[i]) /\ calls[k].cache = "HIT"

\* the last call answered, and whether the step answered one
LastCall(cs) == cs[Len(cs)]

\* C11: a request answered HIT changes nothing: the cache keeps every key with
\* its timestamp and value, the model's predict is not called, and no
\* background task is registered or run.
C11_HitNoSideEffects ==
    [][(Len(calls') > Len(calls) /\ LastCall(calls').cache = "HIT")
        => /\ CACHE' = CACHE
           /\ ~LastCall(calls').invoked
           /\ reqs4' = reqs4
           /\ printed4' = printed4
           /\ ml_models4' = ml_models4]_vars

\* C11 witness: a hit answered while another entry of the cache has expired
C11_Witness ==
    /\ Len(calls) = 3
    /\ LastCall(calls).cache = "HIT"
    /\ CACHE[CallKey(LastCall(calls))][1] < LastCall(calls).t
    /\ \E k \in DOMAIN CACHE : now - CACHE[k][1] >= TTL

\* C12: a request answered MISS leaves under its key exactly the pair of the
\* time it read and the prediction it returns, whatever was there before, and
\* leaves every other key as it was.
C12_MissStoresEntry ==
    [][(Len(calls') > Len(calls) /\ LastCall(calls').cache = "MISS")
        => LET c == LastCall(calls')
               key == CallKey(c)
           IN  /\ c.t = now'
               /\ DOMAIN CACHE' = DOMAIN CACHE \cup {key}
               /\ CACHE'[key] = <<c.t, c.prediction>>
               /\ \A k \in DOMAIN CACHE \ {key} : CACHE'[k] = CACHE[k]]_vars

\* C12 witness: a miss has replaced an expired entry while the cache holds
\* the entry of another key
C12_Witness ==
    /\ Len(calls) = 3
    /\ StoredFor(1, 3)
    /\ calls[3].cache = "MISS"
    /\ calls[3].t > calls[1].t
    /\ calls[2].cache = "MISS"
    /\ CACHE[CallKey(calls[3])] = <<calls[3].t, calls[3].prediction>>
    /\ CACHE[CallKey(calls[2])] = <<calls[2].t, calls[2].prediction>>

\* the variable holding the path of a registered model, and the predictor
\* startup loads for it
EnvOf(model_name) == IF model_name = "logistic_model" THEN "LOGISTIC_MODEL" ELSE "RF_MODEL"

Features(iris) == <<iris.sepal_length, iris.sepal_width, iris.petal_length, iris.petal_width>>

Expected4(model_name, iris) ==
    model_predict(load_model4(env4[EnvOf(model_name)]), Features(iris))

\* the inputs a registered model can be asked for, each with its key
RegistryInputs ==
    {[model |-> m, iris |-> iris, key |-> make_cache_key(m, iris)] :
        m \in RegistryNames, iris \in Irises}

\* C13: whatever the order in which the requests are handled, every entry of
\* the cache holds the prediction of the model of its key for the feature
\* vector of its key.
C13_CacheValuesCorrect ==
    /\ \A e \in RegistryInputs :
          e.key \in DOMAIN CACHE => CACHE[e.key][2] = Expected4(e.model, e.iris)
    /\ DOMAIN CACHE \subseteq {e.key : e \in RegistryInputs}

\* C13 witness: the same key was recomputed, and the cache holds for one
\* feature vector the differing predictions of the two models
C13_Witness ==
    /\ \E i, j \in DOMAIN calls :
          i < j /\ CallKey(calls[i]) = CallKey(calls[j]) /\ calls[i].cache = "MISS" /\ calls[j].cache = "MISS"
    /\ \E iris \in Irises :
          /\ make_cache_key("logistic_model", iris) \in DOMAIN CACHE
          /\ make_cache_key("rf_model", iris) \in DOMAIN CACHE
          /\ CACHE[make_cache_key("logistic_model", iris)][2]
                # CACHE[make_cache_key("rf_model", iris)][2]

\* C17: no step removes a key of the cache, and an entry changes only when a
\* request on its key, finding it expired, is answered MISS.
C17_CacheKeysOnlyGrow ==
    [][/\ DOMAIN CACHE \subseteq DOMAIN CACHE'
       /\ \A k \in DOMAIN CACHE :
            CACHE'[k] # CACHE[k]
                => /\ Len(calls') > Len(calls)
                   /\ LastCall(calls').cache = "MISS"
                   /\ CallKey(LastCall(calls')) = k
                   /\ LastCall(calls').t - CACHE[k][1] >= TTL]_vars

\* C17 witness: an expired entry is still in the cache, as stored, after a
\* later miss on another key and the shutdown of the application
C17_Witness ==
    /\ phase4 = "stopped"
    /\ Len(calls) >= 2
    /\ LastCall(calls).cache = "MISS"
    /\ CACHE[CallKey(calls[1])] = <<calls[1].t, calls[1].prediction>>
    /\ CallKey(calls[1]) # CallKey(LastCall(calls))
    /\ now - calls[1].t >= TTL

\* C18: the timestamp of an entry is the time of the last MISS on its key,
\* whatever hits followed; a HIT is always less than TTL after that MISS, and
\* two successive misses on a key are at least TTL apart.
C18_HitsDoNotExtend ==
    /\ \A j \in DOMAIN calls :
          calls[j].cache = "HIT"
              => \E i \in 1..(j - 1) : StoredFor(i, j) /\ calls[j].t - calls[i].t < TTL
    /\ \A i, j \in DOMAIN calls :
          (StoredFor(i, j) /\ calls[j].cache = "MISS") => calls[j].t - calls[i].t >= TTL
    /\ \A i \in DOMAIN calls :
          (calls[i].cache = "MISS"
             /\ \A k \in (i + 1)..Len(calls) :
                    SameInput(calls[k], calls[i]) => calls[k].cache # "MISS")
              => CACHE[CallKey(calls[i])][1] = calls[i].t

\* C18 witness: stored, hit 29 seconds later, and missed 10 seconds after
\* that hit
C18_Witness ==
    /\ Len(calls) = 3
    /\ StoredFor(1, 2) /\ SameInput(calls[2], calls[3])
    /\ calls[2].cache = "HIT" /\ calls[2].t - calls[1].t = TTL - 1
    /\ calls[3].cache = "MISS" /\ calls[3].t - calls[2].t = 10

\* -------------------------------------------------------------- 7day app
\* load_model(path): "if not path: return None", else open and unpickle
load_model7_raises(path) == path = "corrupt.pkl"

load_model7(path) == IF path = "unset" THEN "None" ELSE Unpickle(path)

\* lifespan, up to the yield
lifespan_startup7 ==
    /\ phase7 = "created"
    /\ IF load_model7_raises(env7["LOGISTIC_MODEL"])
       THEN /\ phase7' = "failed"
            /\ ml_models7' = ml_models7
       ELSE LET m1 == Put(ml_models7, "logistic_model", load_model7(env7["LOGISTIC_MODEL"]))
            IN  IF load_model7_raises(env7["RF_MODEL"])
                THEN /\ phase7' = "failed"
                     /\ ml_models7' = m1
                ELSE /\ phase7' = "serving"
                     /\ ml_models7' = Put(m1, "rf_model", load_model7(env7["RF_MODEL"]))
    /\ UNCHANGED <<env7, DATA_LOG, reqs, mon, runs, report_html, vars4, varsK, varsS>>

\* a clear of the registry that does not wait for the requests in flight
lifespan_shutdown7_undrained ==
    /\ phase7 = "serving"
    /\ phase7' = "stopped"
    /\ ml_models7' = EmptyMap
    /\ UNCHANGED <<env7, DATA_LOG, reqs, mon, runs, report_html, vars4, varsK, varsS>>

\* lifespan, after the yield: ml_models.clear(). The server runs it once the
\* requests it accepted, background tasks included, have finished.
lifespan_shutdown7 ==
    /\ phase7 = "serving"
    /\ \A i \in DOMAIN reqs : ~InFlight(reqs[i])
    /\ \A i \in DOMAIN mon : mon[i].pc = "done"
    /\ phase7' = "stopped"
    /\ ml_models7' = EmptyMap
    /\ UNCHANGED <<env7, DATA_LOG, reqs, mon, runs, report_html, vars4, varsK, varsS>>

\* Path(pattern=r"^(logistic_model|rf_model)$")
path_pattern(model_name) == model_name \in {"logistic_model", "rf_model"}

\* the handler starts log_data itself instead of registering it
add_task_inline(r, iris_data, prediction) ==
    [r EXCEPT !.task = "running", !.iris_data = Append(iris_data, prediction),
              !.label = prediction]

\* background_tasks.add_task(log_data, input_data[0], int(prediction[0]))
add_task(r, iris_data, prediction) ==
    [r EXCEPT !.task = "scheduled", !.iris_data = iris_data, !.label = prediction]

\* POST /predict/{model_name}: the handler, up to its return or raise
predict(model_name, iris) ==
    LET input_data == <<<<iris.sepal_length, iris.sepal_width,
                          iris.petal_length, iris.petal_width>>>>
        r0 == [model |-> model_name, iris |-> iris, status |-> "", prediction |-> -1,
               sent |-> FALSE, task |-> "none", iris_data |-> <<>>, label |-> -1]
    IN  /\ phase7 = "serving"
        /\ Len(reqs) < MaxReqs
        /\ reqs' = Append(reqs,
              IF ~path_pattern(model_name)
              THEN [r0 EXCEPT !.status = "422"]
              ELSE IF model_name \notin DOMAIN ml_models7
              THEN [r0 EXCEPT !.status = "404"]
              ELSE IF ml_models7[model_name] = "None"
              THEN \* None.predict raises AttributeError
                   [r0 EXCEPT !.status = "500"]
              ELSE LET prediction == model_predict(ml_models7[model_name], input_data[1])
                   IN  [add_task(r0, input_data[1], prediction)
                            EXCEPT !.status = "200", !.prediction = prediction])
        /\ UNCHANGED <<env7, phase7, ml_models7, DATA_LOG, mon, runs, report_html,
                       vars4, varsK, varsS>>

\* the server sends the response the handler produced
send_response(i) ==
    /\ i \in DOMAIN reqs
    /\ ~reqs[i].sent
    /\ reqs' = [reqs EXCEPT ![i].sent = TRUE]
    /\ UNCHANGED <<env7, phase7, ml_models7, DATA_LOG, mon, runs, report_html,
                   vars4, varsK, varsS>>

\* the task may start: the server runs the background tasks of a response
\* once it has sent the response
task_may_start(r) == r.task = "scheduled" /\ r.sent

\* log_data without its first statement
log_data_extend_missing(i) ==
    /\ i \in DOMAIN reqs
    /\ task_may_start(reqs[i])
    /\ reqs' = [reqs EXCEPT ![i].task = "running"]
    /\ UNCHANGED <<env7, phase7, ml_models7, DATA_LOG, mon, runs, report_html,
                   vars4, varsK, varsS>>

\* log_data, first statement: iris_data.append(prediction)
log_data_extend(i) ==
    /\ i \in DOMAIN reqs
    /\ task_may_start(reqs[i])
    /\ reqs' = [reqs EXCEPT ![i].task = "running",
                            ![i].iris_data = Append(reqs[i].iris_data, reqs[i].label)]
    /\ UNCHANGED <<env7, phase7, ml_models7, DATA_LOG, mon, runs, report_html,
                   vars4, varsK, varsS>>

\* log_data rebinding the log: DATA_LOG = [iris_data]
log_data_append_rebind(i) ==
    /\ i \in DOMAIN reqs
    /\ reqs[i].task = "running"
    /\ DATA_LOG' = <<reqs[i].iris_data>>
    /\ reqs' = [reqs EXCEPT ![i].task = "done"]
    /\ UNCHANGED <<env7, phase7, ml_models7, mon, runs, report_html,
                   vars4, varsK, varsS>>

\* log_data, second statement: DATA_LOG.append(iris_data)
log_data_append(i) ==
    /\ i \in DOMAIN reqs
    /\ reqs[i].task = "running"
    /\ DATA_LOG' = Append(DATA_LOG, reqs[i].iris_data)
    /\ reqs' = [reqs EXCEPT ![i].task = "done"]
    /\ UNCHANGED <<env7, phase7, ml_models7, mon, runs, report_html,
                   vars4, varsK, varsS>>

Max(a, b) == IF a > b THEN a ELSE b
Min(a, b) == IF a < b THEN a ELSE b

\* lst[:n], the first n rows
slice_first(lst, n) == SubSeq(lst, 1, Min(n, Len(lst)))

\* lst[-n:] as Python computes it: a negative start counts from the end and is
\* clipped at 0, and -0 is the start 0
slice_last(lst, n) ==
    LET len == Len(lst)
        start == IF -n < 0 THEN Max(len - n, 0) ELSE Min(-n, len)
    IN  SubSeq(lst, start + 1, len)

\* load_last_predictions: DATA_LOG[-DATA_WINDOW_SIZE:] as a five column frame
load_last_predictions == slice_last(DATA_LOG, DATA_WINDOW_SIZE)

\* monitoring without the test of len(DATA_LOG)
monitoring_unguarded ==
    /\ phase7 = "serving"
    /\ Len(mon) < MaxMon
    /\ mon' = Append(mon, [pc |-> "dashboard", outcome |-> ""])
    /\ UNCHANGED <<env7, phase7, ml_models7, DATA_LOG, reqs, runs, report_html,
                   vars4, varsK, varsS>>

\* GET /monitoring, up to the test of len(DATA_LOG)
monitoring ==
    /\ phase7 = "serving"
    /\ Len(mon) < MaxMon
    /\ mon' = Append(mon, IF Len(DATA_LOG) = 0
                          THEN [pc |-> "done", outcome |-> "No data."]
                          ELSE [pc |-> "dashboard", outcome |-> ""])
    /\ UNCHANGED <<env7, phase7, ml_models7, DATA_LOG, reqs, runs, report_html,
                   vars4, varsK, varsS>>

\* generate_dashboard emptying the log once it has taken its sample
generate_dashboard_consuming(i, run_ok) ==
    /\ i \in DOMAIN mon
    /\ mon[i].pc = "dashboard"
    /\ LET current_data == load_last_predictions
       IN  /\ runs' = Append(runs, current_data)
           /\ DATA_LOG' = <<>>
           /\ IF run_ok
              THEN /\ report_html' = current_data
                   /\ mon' = [mon EXCEPT ![i] = [pc |-> "done", outcome |-> "FileResponse"]]
              ELSE /\ report_html' = report_html
                   /\ mon' = [mon EXCEPT ![i] = [pc |-> "done", outcome |-> "500"]]
    /\ UNCHANGED <<env7, phase7, ml_models7, reqs, vars4, varsK, varsS>>

\* generate_dashboard and the rest of monitoring; run_ok is whether
\* data_report.run returns (it raises otherwise, and nothing catches it)
generate_dashboard(i, run_ok) ==
    /\ i \in DOMAIN mon
    /\ mon[i].pc = "dashboard"
    /\ LET current_data == load_last_predictions
       IN  /\ runs' = Append(runs, current_data)
           /\ IF run_ok
              THEN /\ report_html' = current_data
                   /\ mon' = [mon EXCEPT ![i] = [pc |-> "done", outcome |-> "FileResponse"]]
              ELSE /\ report_html' = report_html
                   /\ mon' = [mon EXCEPT ![i] = [pc |-> "done", outcome |-> "500"]]
    /\ UNCHANGED <<env7, phase7, ml_models7, DATA_LOG, reqs, vars4, varsK, varsS>>

Request7 == \E m \in RequestNames, iris \in Irises : predict(m, iris)

Respond7 == \E i \in 1..MaxReqs : send_response(i)

TaskExtend7 == \E i \in 1..MaxReqs : log_data_extend(i)

TaskAppend7 == \E i \in 1..MaxReqs : log_data_append(i)

Dashboard7 == \E i \in 1..MaxMon, run_ok \in BOOLEAN : generate_dashboard(i, run_ok)

Next7 ==
    \/ lifespan_startup7
    \/ lifespan_shutdown7
    \/ Request7
    \/ Respond7
    \/ TaskExtend7
    \/ TaskAppend7
    \/ monitoring
    \/ Dashboard7

\* the 7day process after its module is loaded; the rest is not started
Init7 ==
    /\ env4 = EnvUnset
    /\ phase4 = "created"
    /\ ml_models4 = EmptyMap
    /\ CACHE = EmptyMap
    /\ now = 0
    /\ calls = <<>>
    /\ reqs4 = <<>>
    /\ printed4 = <<>>
    /\ env7 \in EnvValues
    /\ phase7 = "created"
    /\ ml_models7 = EmptyMap
    /\ DATA_LOG = <<>>
    /\ reqs = <<>>
    /\ mon = <<>>
    /\ runs = <<>>
    /\ report_html = "absent"
    /\ key_in = <<>>
    /\ key_out = NoKey
    /\ sample_log = <<>>
    /\ sample_n = 1
    /\ sample_out = NoSample

Spec7 == Init7 /\ [][Next7]_vars

\* the event loop sends every response and the thread pool runs every
\* statement of every task it was handed
Fair7 ==
    \A i \in 1..MaxReqs :
        /\ WF_vars(send_response(i))
        /\ WF_vars(log_data_extend(i))
        /\ WF_vars(log_data_append(i))

\* the predict requests and their background tasks without the monitoring
\* requests, which read DATA_LOG and write neither it nor a request
NextTasks7 ==
    \/ lifespan_startup7
    \/ lifespan_shutdown7
    \/ Request7
    \/ Respond7
    \/ TaskExtend7
    \/ TaskAppend7

SpecTasks7 == Init7 /\ [][NextTasks7]_vars /\ Fair7

\* ------------------------------------------------- make_cache_key, alone
\* field values make_cache_key is applied to: 0.05, 0.5, 5.1 and 5.15
KeyFieldVals == {5, 50, 510, 515}

KeyInputs ==
    {[model |-> m, iris |-> IrisData(sl, sw, pl, pw)] :
        m \in RequestNames, sl \in KeyFieldVals, sw \in KeyFieldVals,
        pl \in KeyFieldVals, pw \in KeyFieldVals}

\* key = make_cache_key(model_name, iris)
ComputeKey ==
    /\ ~key_out.done
    /\ key_out' = [done |-> TRUE, key |-> make_cache_key(key_in.model, key_in.iris)]
    /\ UNCHANGED <<key_in, vars4, vars7, varsS>>

NextK == ComputeKey

\* an input of make_cache_key, no application started
InitK ==
    /\ env4 = EnvUnset
    /\ phase4 = "created"
    /\ ml_models4 = EmptyMap
    /\ CACHE = EmptyMap
    /\ now = 0
    /\ calls = <<>>
    /\ reqs4 = <<>>
    /\ printed4 = <<>>
    /\ env7 = EnvUnset
    /\ phase7 = "created"
    /\ ml_models7 = EmptyMap
    /\ DATA_LOG = <<>>
    /\ reqs = <<>>
    /\ mon = <<>>
    /\ runs = <<>>
    /\ report_html = "absent"
    /\ key_in \in KeyInputs
    /\ key_out = NoKey
    /\ sample_log = <<>>
    /\ sample_n = 1
    /\ sample_out = NoSample

SpecKey == InitK /\ [][NextK]_vars

\* ------------------------------------------- the window slice, alone
\* rows of the log: four feature values and the predicted label
Rows == {<<510, 350, 140, 20, 0>>, <<670, 310, 560, 240, 2>>,
         <<590, 300, 420, 150, 1>>, <<510, 350, 140, 20, 1>>}

LogsUpTo(n) == UNION {[1..k -> Rows] : k \in 0..n}

\* DATA_LOG[-DATA_WINDOW_SIZE:] for the log and the window size drawn
TakeSample ==
    /\ ~sample_out.done
    /\ sample_out' = [done |-> TRUE, rows |-> slice_last(sample_log, sample_n)]
    /\ UNCHANGED <<sample_log, sample_n, vars4, vars7, varsK>>

NextS == TakeSample

\* a log and a window size, no application started
InitS ==
    /\ env4 = EnvUnset
    /\ phase4 = "created"
    /\ ml_models4 = EmptyMap
    /\ CACHE = EmptyMap
    /\ now = 0
    /\ calls = <<>>
    /\ reqs4 = <<>>
    /\ printed4 = <<>>
    /\ env7 = EnvUnset
    /\ phase7 = "created"
    /\ ml_models7 = EmptyMap
    /\ DATA_LOG = <<>>
    /\ reqs = <<>>
    /\ mon = <<>>
    /\ runs = <<>>
    /\ report_html = "absent"
    /\ key_in = <<>>
    /\ key_out = NoKey
    /\ sample_log \in LogsUpTo(MaxLogLen)
    /\ sample_n \in 1..MaxWindow
    /\ sample_out = NoSample

SpecSample == InitS /\ [][NextS]_vars

\* the two applications side by side, and the functions applied alone
Next == Next4 \/ NextPredict4 \/ Next7 \/ NextK \/ NextS

\* both processes after their modules are loaded, and the inputs of the functions applied alone
Init ==
    /\ env4 \in EnvValues
    /\ phase4 = "created"
    /\ ml_models4 = EmptyMap
    /\ CACHE = EmptyMap
    /\ now = 0
    /\ calls = <<>>
    /\ reqs4 = <<>>
    /\ printed4 = <<>>
    /\ env7 \in EnvValues
    /\ phase7 = "created"
    /\ ml_models7 = EmptyMap
    /\ DATA_LOG = <<>>
    /\ reqs = <<>>
    /\ mon = <<>>
    /\ runs = <<>>
    /\ report_html = "absent"
    /\ key_in \in KeyInputs
    /\ key_out = NoKey
    /\ sample_log \in LogsUpTo(MaxLogLen)
    /\ sample_n \in 1..MaxWindow
    /\ sample_out = NoSample

Spec == Init /\ [][Next]_vars

\* ----------------------------------------------------------------- claims
\* C3: a prediction request naming a model that is not in the registry is
\* answered with the 404 "not found" outcome, stores nothing in the cache and
\* schedules no background task. Stated for predict_cached, where the lookup
\* ml_models[model_name] is not preceded by a membership test.
C3_UnknownModelNotFound ==
    \A i \in DOMAIN calls :
        calls[i].model \notin RegistryNames
        => (calls[i].cache = "404" /\ CallKey(calls[i]) \notin DOMAIN CACHE)

\* C4: a model whose path is unset has no registry entry after startup,
\* startup does not fail, and every predict request for it is answered 404.
C4_UnsetPathAbsent ==
    \A v \in Env4Names :
        LET name == IF v = "LOGISTIC_MODEL" THEN "logistic_model" ELSE "rf_model"
            other == CHOOSE w \in Env4Names : w # v
        IN  (env7[v] = "unset" /\ env7[other] # "corrupt.pkl" /\ phase7 # "created")
            => /\ phase7 # "failed"
               /\ phase7 = "serving" => name \notin DOMAIN ml_models7
               /\ \A i \in DOMAIN reqs : reqs[i].model = name => reqs[i].status = "404"

\* C5: the slice returns the whole log, in append order, when the log has
\* fewer than n rows, and exactly its last n rows, in append order, otherwise.
C5_SampleLastN ==
    sample_out.done =>
        LET k == Len(sample_log)
            n == sample_n
            out == sample_out.rows
        IN  /\ k < n => out = sample_log
            /\ k >= n => /\ Len(out) = n
                         /\ \A i \in 1..n : out[i] = sample_log[k - n + i]

\* C5 witness: window size 3 applied to a log of four different rows E1..E4
\* has returned <<E2, E3, E4>>
C5_Witness ==
    /\ sample_out.done
    /\ sample_n = 3
    /\ Len(sample_log) = 4
    /\ \A i, j \in 1..4 : i # j => sample_log[i] # sample_log[j]
    /\ sample_out.rows = <<sample_log[2], sample_log[3], sample_log[4]>>

\* C6: a monitoring request that finds the log empty answers "No data." and
\* does not reach data_report.run; data_report.run is only ever called with
\* the log, and the current_data it is handed, holding at least one row.
C6_NoDataNoRun ==
    [][/\ (Len(mon') > Len(mon) /\ Len(DATA_LOG) = 0)
            => /\ mon'[Len(mon')] = [pc |-> "done", outcome |-> "No data."]
               /\ runs' = runs
       /\ runs' # runs
            => /\ Len(DATA_LOG) >= 1
               /\ Len(runs') = Len(runs) + 1
               /\ Len(runs'[Len(runs')]) >= 1]_vars

\* C6 witness: one monitoring request answered "No data." with no run made
\* for it, and a later one that reached data_report.run
C6_Witness ==
    /\ Len(mon) = 2
    /\ mon[1].outcome = "No data."
    /\ mon[2].outcome = "FileResponse"
    /\ Len(runs) = 1

\* C8: two inputs that differ in a feature field never get the same key.
C8_KeyInjective ==
    key_out.done =>
        \A q \in KeyInputs :
            q.iris # key_in.iris => make_cache_key(q.model, q.iris) # key_out.key

\* C8 witness: the key of a vector holding both 0.05 and 0.5 has been made
C8_Witness ==
    /\ key_out.done
    /\ key_in.iris.sepal_length = 5
    /\ key_in.iris.sepal_width = 50
    /\ Len(key_out.key) > 2

\* C9: a background task starts only after the response of its request has
\* been sent, sending the response never waits for the task, and every
\* scheduled task runs to its end.
C9_TaskAfterResponse ==
    /\ [](\A i \in DOMAIN reqs :
            /\ reqs[i].task \in {"running", "done"} => reqs[i].sent
            /\ ~reqs[i].sent => ENABLED send_response(i))
    /\ \A i \in 1..MaxReqs :
            (i \in DOMAIN reqs /\ reqs[i].task = "scheduled")
                ~> (i \in DOMAIN reqs /\ reqs[i].task = "done" /\ reqs[i].sent)

\* C9 witness: one request's task has run to its end while another request,
\* answered already, still has its task waiting
C9_Witness ==
    \E i, j \in DOMAIN reqs :
        /\ reqs[i].task = "done" /\ reqs[i].sent
        /\ reqs[j].task = "scheduled" /\ reqs[j].sent

\* C10: when data_report.run fails on a non-empty log, monitoring answers with
\* a "no report available" outcome of its own: every finished monitoring
\* request ends in "No data.", the report, or that outcome, never in an
\* unhandled failure.
C10_RunFailureHandled ==
    \A i \in DOMAIN mon :
        mon[i].pc = "done" => mon[i].outcome \in {"No data.", "FileResponse", "No report."}

\* the requests whose handler returned a prediction, and those whose task
\* has run to its end
Succeeded == {i \in DOMAIN reqs : reqs[i].status = "200"}
TaskDone == {i \in DOMAIN reqs : reqs[i].task = "done"}

\* C14: a predict request registers a task exactly when it succeeds; the log
\* holds one row per task that has run to its end, in whatever order the tasks
\* of concurrent requests ran, so with no task left its length is the number
\* of successful requests.
C14_OneAppendPerRequest ==
    /\ \A i \in DOMAIN reqs : (i \in Succeeded) <=> (reqs[i].task # "none")
    /\ Len(DATA_LOG) = Cardinality(TaskDone)
    /\ (\A i \in DOMAIN reqs : reqs[i].task \in {"none", "done"})
            => Len(DATA_LOG) = Cardinality(Succeeded)

\* C14 witness: the tasks of two requests have both run, the later request's
\* row appended first
C14_Witness ==
    /\ Len(reqs) = 2
    /\ TaskDone = {1, 2}
    /\ reqs[1].iris # reqs[2].iris
    /\ DATA_LOG = <<reqs[2].iris_data, reqs[1].iris_data>>

IsPrefix(a, b) == Len(a) <= Len(b) /\ SubSeq(b, 1, Len(a)) = a

RowOf(r) == Features(r.iris) \o <<r.prediction>>

\* C19: every row of the log, and of every sample handed to the report, has
\* five fields, the four features of a request in the order sepal length,
\* sepal width, petal length, petal width and then its prediction; each task
\* that has run has its own row in the log.
C19_RowsHaveFiveFields ==
    /\ \A k \in DOMAIN DATA_LOG :
          /\ Len(DATA_LOG[k]) = 5
          /\ \E i \in TaskDone : DATA_LOG[k] = RowOf(reqs[i])
    /\ \A i \in TaskDone :
          Cardinality({k \in DOMAIN DATA_LOG : DATA_LOG[k] = RowOf(reqs[i])})
              = Cardinality({j \in TaskDone : RowOf(reqs[j]) = RowOf(reqs[i])})
    /\ \A n \in DOMAIN runs : \A k \in DOMAIN runs[n] : Len(runs[n][k]) = 5

\* C19 witness: the rows of two different requests are in the log and were
\* handed to the report
C19_Witness ==
    /\ Len(DATA_LOG) = 2
    /\ DATA_LOG[1] # DATA_LOG[2]
    /\ DATA_LOG[1][5] # DATA_LOG[2][5]
    /\ \E n \in DOMAIN runs : runs[n] = DATA_LOG

====
